---- MODULE Spec2Model ----
(***************************************************************************)
(* CHash<T> (Inc/Hash.h): a chained hash table keyed by pointer identity,  *)
(* built on a non-freeing allocator, that recycles the memory of a         *)
(* superseded bucket array as storage for new Hash_t nodes.                *)
(*                                                                         *)
(* Memory is modelled as an array of pointer-sized words addressed by byte *)
(* address, so that a node whose storage overlaps another object really    *)
(* overwrites it.  Every member function is one atomic action (the class   *)
(* has no locking and is used by a single writer).                         *)
(***************************************************************************)
EXTENDS Integers, Sequences, FiniteSets, TLC

(***************************************************************************)
(* Layout (x64 build): the pointer size and struct Hash_t {key,value,Next}. *)
(***************************************************************************)
PtrSize == 8
nullptr == 0
KeyOff == 0
ValueOff == PtrSize
NextOff == 2 * PtrSize
SizeofHash_t == 3 * PtrSize

\* number of pointer-sized words of allocator memory that are modelled
MemWords == 144

Addrs == {PtrSize * i : i \in 1..MemWords}
ArenaBase == PtrSize
ArenaEnd == PtrSize * (MemWords + 1)

\* a Hash_t* that can be dereferenced: its three fields lie in the memory
IsNode(p) == p \in Addrs /\ (p + NextOff) \in Addrs

(***************************************************************************)
(* Pointer values of the keys and of the caller-owned T records.  They lie *)
(* outside the allocator memory: the table never dereferences a key, and   *)
(* using one as a Hash_t* is a wild access.                                *)
(***************************************************************************)
\* bounds of CopyHashToArray's inputs
MaxCopied == 2
MaxRecords == 2

GeneralKeys == {4096, 4112, 4160, 4496}
\* seven keys that hash to seven different buckets of a table of 8
DistinctKeys == << 4096, 4112, 4128, 4144, 4160, 4192, 4416 >>
\* twelve keys that hash to bucket 5 of a table of 8, and two that do not
CollidingKeys == << 4192, 4224, 4240, 4304, 4368, 4384, 4528, 4608, 4784, 4832, 4944, 5024 >>
FillerKeys == {4096, 4112}
\* seven keys that fill buckets 0, 0, 1, 1, 2, 2, 3 of a table of 4 and seven
\* different buckets of a table of 8
SpreadingKeys == << 4464, 4112, 4160, 4192, 4144, 4128, 4416 >>
SeqRange(q) == { q[i] : i \in 1..Len(q) }
KeyPool == GeneralKeys \cup SeqRange(DistinctKeys) \cup SeqRange(CollidingKeys)
               \cup FillerKeys \cup SeqRange(SpreadingKeys)
RecordBase == 8192
NewRecord(k) == RecordBase + k
RecordPool == {NewRecord(k) : k \in KeyPool}

\* every value a memory word can hold
WordVals == {nullptr} \cup Addrs \cup KeyPool \cup RecordPool

\* the element of a one-element set: Val({F(x) : x \in {e}}) applies F to the
\* value of e, computed once
Val(S) == CHOOSE x \in S : TRUE

(***************************************************************************)
(* 64-bit unsigned arithmetic, as HashPointer needs it.  An unsigned long  *)
(* long is a tuple of four 16-bit limbs, least significant first.          *)
(***************************************************************************)
Limb == 65536

ToU64(n) == << n % Limb, (n \div Limb) % Limb, 0, 0 >>

LimbAt(x, j) == IF j >= 1 /\ j <= 4 THEN x[j] ELSE 0

\* borrow out of limb j of x - y, given the borrow into it
BorrowOut(x, y, j, borrow) == IF x[j] - y[j] - borrow < 0 THEN 1 ELSE 0

Sub64(x, y) ==
    Val({ << (x[1] - y[1]) % Limb, (x[2] - y[2] - b1) % Limb,
             (x[3] - y[3] - b2) % Limb, (x[4] - y[4] - b3) % Limb >> :
          b3 \in { BorrowOut(x, y, 3, BorrowOut(x, y, 2, BorrowOut(x, y, 1, 0))) },
          b2 \in { BorrowOut(x, y, 2, BorrowOut(x, y, 1, 0)) },
          b1 \in { BorrowOut(x, y, 1, 0) } })

Add64(x, y) == Val({ Sub64(x, negated) : negated \in { Sub64(ToU64(0), y) } })

RECURSIVE XorLimb(_, _, _)
XorLimb(u, v, bits) ==
    IF bits = 0 THEN 0
    ELSE ((u + v) % 2) +
         2 * Val({ XorLimb(u2, v2, bits - 1) : u2 \in {u \div 2}, v2 \in {v \div 2} })

Xor64(x, y) == << XorLimb(x[1], y[1], 16), XorLimb(x[2], y[2], 16),
                  XorLimb(x[3], y[3], 16), XorLimb(x[4], y[4], 16) >>

\* limb j of x >> (16*q + r) and of x << (16*q + r)
ShrLimb(x, j, q, r) ==
    (LimbAt(x, j + q) \div (2^r)) + (LimbAt(x, j + q + 1) % (2^r)) * (2^(16 - r))
ShlLimb(x, j, q, r) ==
    ((LimbAt(x, j - q) * (2^r)) % Limb) + (LimbAt(x, j - q - 1) \div (2^(16 - r)))

Shr64(x, n) == << ShrLimb(x, 1, n \div 16, n % 16), ShrLimb(x, 2, n \div 16, n % 16),
                  ShrLimb(x, 3, n \div 16, n % 16), ShrLimb(x, 4, n \div 16, n % 16) >>
Shl64(x, n) == << ShlLimb(x, 1, n \div 16, n % 16), ShlLimb(x, 2, n \div 16, n % 16),
                  ShlLimb(x, 3, n \div 16, n % 16), ShlLimb(x, 4, n \div 16, n % 16) >>

\* 0x9e3779b9
Golden == << 31161, 40503, 0, 0 >>

\* one "x -= y; x -= z; x ^= (z >> n)" step; left = TRUE for "<<"
MixStep(x, y, z, n, left) ==
    Val({ Xor64(d2, sh) :
          d2 \in { Val({ Sub64(d1, z) : d1 \in { Sub64(x, y) } }) },
          sh \in { IF left THEN Shl64(z, n) ELSE Shr64(z, n) } })

\* three consecutive lines of the mix: a with >> n1, b with << n2, c with >> n3
MixRound(s, n1, n2, n3) ==
    Val({ Val({ Val({ << a, b, c >> : c \in { MixStep(s[3], a, b, n3, FALSE) } }) :
                b \in { MixStep(s[2], s[3], a, n2, TRUE) } }) :
          a \in { MixStep(s[1], s[2], s[3], n1, FALSE) } })

\* (long)c returned as an unsigned long: the low 32 bits (LLP64), as the
\* pair of its two 16-bit limbs
HashPointerOf(p) ==
    Val({ << s3[3][1], s3[3][2] >> :
          s3 \in { Val({ MixRound(s2, 3, 10, 15) :
                   s2 \in { Val({ MixRound(s1, 12, 16, 5) :
                            s1 \in { Val({ MixRound(s0, 13, 8, 13) :
                                     s0 \in { << Add64(Golden, ToU64(p)), Golden,
                                                 ToU64(0) >> } }) } }) } }) } })

\* HashPointer of every value that can reach it (evaluated once)
HashPointer == [p \in WordVals |-> HashPointerOf(p)]

\* hash % HashTableSize, on the two limbs of the 32-bit hash
Bucket(p, size) ==
    (((HashPointer[p][2] % size) * (Limb % size)) + (HashPointer[p][1] % size)) % size

(***************************************************************************)
(* State.  The first seven variables are the data members of CHash; mem    *)
(* and arenaNext are the allocator's memory and its next free byte.  The   *)
(* rest records the calls made so far, for stating properties; copy is the *)
(* result of a CopyHashToArray call that has just returned; race holds the *)
(* positions and locals of two threads that use the table without a lock;  *)
(* twin is the table that received the same calls and takes every node     *)
(* from the allocator.                                                     *)
(***************************************************************************)
VARIABLES HashTableSize, HashTable, OldHashTable, OldHashTableFreeRemaining,
          NumUsedSlots, MaxListLength, NumTotalRecords,
          mem, arenaNext, pc,
          work, last, resizes, window, firstSlot, stored, copy, race, twin

members == << HashTableSize, HashTable, OldHashTable, OldHashTableFreeRemaining,
              NumUsedSlots, MaxListLength, NumTotalRecords >>
history == << work, last, resizes, window, firstSlot, stored, twin >>
vars == << members, mem, arenaNext, pc, history, copy, race >>

(***************************************************************************)
(* CAllocator::AllocateBytes: a non-freeing allocator handing out zeroed,  *)
(* pointer-aligned, consecutive ranges.  It returns the current free byte  *)
(* and advances past the request.                                          *)
(***************************************************************************)
AlignUp(n, alignment) == ((n + alignment - 1) \div alignment) * alignment
AllocateBytes(next, bytes, alignment) ==
    [ptr |-> AlignUp(next, alignment), next |-> AlignUp(next, alignment) + bytes]
CanAllocate(next, bytes) == AlignUp(next, PtrSize) + bytes <= ArenaEnd

(***************************************************************************)
(* A size_t is kept as its two's-complement representative: a negative r   *)
(* stands for 2^64 + r, so that subtraction wraps as in the code.          *)
(***************************************************************************)
SizeTGreaterEq(r, n) == r < 0 \/ r >= n

(***************************************************************************)
(* AllocateFromOldHashTable                                                *)
(***************************************************************************)
AllocateFromOldHashTable(cursor, remaining) ==
    LET FreePointer == cursor
        Alignment == PtrSize
        pAlignedFreePointer ==
            ((FreePointer + SizeofHash_t + Alignment - 1) \div Alignment) * Alignment
        AlignedOffset == pAlignedFreePointer - FreePointer
        left == remaining - AlignedOffset
    IN  IF SizeTGreaterEq(left, SizeofHash_t)
        THEN [ptr |-> FreePointer, cursor |-> pAlignedFreePointer, remaining |-> left]
        ELSE [ptr |-> FreePointer, cursor |-> nullptr, remaining |-> 0]

Larger(a, b) == IF a > b THEN a ELSE b

(***************************************************************************)
(* The chain walk of LookupPointer.  st is "found", "end" (not found),     *)
(* "wild" (a pointer outside the memory was dereferenced) or "hang" (the   *)
(* walk came back to a node it had visited: the chain is cyclic and does   *)
(* not hold the key, and the loop never ends).  seen is the set of nodes   *)
(* visited so far.                                                         *)
(***************************************************************************)
RECURSIVE WalkChain(_, _, _, _, _, _, _)
WalkChain(m, pHashRecord, InPointer, LinkedListLength, maxLen, pPrevHashRecord, seen) ==
    IF pHashRecord = nullptr
    THEN [st |-> "end", node |-> nullptr, prev |-> pPrevHashRecord, max |-> maxLen]
    ELSE IF ~IsNode(pHashRecord)
    THEN [st |-> "wild", node |-> nullptr, prev |-> pPrevHashRecord, max |-> maxLen]
    ELSE IF pHashRecord \in seen
    THEN [st |-> "hang", node |-> nullptr, prev |-> pPrevHashRecord, max |-> maxLen]
    ELSE IF m[pHashRecord + KeyOff] = InPointer
    THEN [st |-> "found", node |-> pHashRecord, prev |-> pPrevHashRecord,
          max |-> Larger(LinkedListLength + 1, maxLen)]
    ELSE Val({ WalkChain(m, next, InPointer, len, mx, pHashRecord, sn) :
               next \in { m[pHashRecord + NextOff] },
               len \in { LinkedListLength + 1 },
               mx \in { Larger(LinkedListLength + 1, maxLen) },
               sn \in { seen \cup {pHashRecord} } })

\* the second walk of LookupPointer, after IncreaseHashTableSize
RECURSIVE FindAgain(_, _, _, _)
FindAgain(m, pHashRecord, InPointer, seen) ==
    IF pHashRecord = nullptr THEN [st |-> "end", node |-> nullptr]
    ELSE IF ~IsNode(pHashRecord) THEN [st |-> "wild", node |-> nullptr]
    ELSE IF pHashRecord \in seen THEN [st |-> "hang", node |-> nullptr]
    ELSE IF m[pHashRecord + KeyOff] = InPointer THEN [st |-> "found", node |-> pHashRecord]
    ELSE Val({ FindAgain(m, next, InPointer, sn) :
               next \in { m[pHashRecord + NextOff] }, sn \in { seen \cup {pHashRecord} } })

(***************************************************************************)
(* The resize test of LookupPointer.  For the table sizes of the model     *)
(* (unsigned)((float)size * 0.8f) is the integer part of 4*size/5, and     *)
(* total/used > 5.0f is total > 5*used; with no used slot the quotient of  *)
(* a positive total is +infinity.                                          *)
(***************************************************************************)
\* the limit as the whole length, and as 80% rounded up
SlotLimitWhole(size) == size
SlotLimitRoundedUp(size) == (size * 4 + 4) \div 5
SlotLimit(size) == (size * 4) \div 5
\* the comparison as >=
ProbeAverageAtLeast5(total, used) == IF used = 0 THEN total > 0 ELSE total >= 5 * used
ProbeAverageOver5(total, used) == IF used = 0 THEN total > 0 ELSE total > 5 * used
MaxListLimit == 10
NeedResize(used, total, maxLen, size) ==
    \/ used > SlotLimit(size)
    \/ ProbeAverageOver5(total, used)
    \/ maxLen > MaxListLimit

(***************************************************************************)
(* IncreaseHashTableSize: the migration loops.  s = [mem, used, max,       *)
(* total, st] is the state of the loop.                                    *)
(***************************************************************************)
RECURSIVE FindTail(_, _, _, _, _, _)
FindTail(m, pHashRecord, LinkedListLength, maxLen, pPrevHashRecord, seen) ==
    IF pHashRecord = nullptr THEN [st |-> "ok", prev |-> pPrevHashRecord, max |-> maxLen]
    ELSE IF ~IsNode(pHashRecord) THEN [st |-> "wild", prev |-> pPrevHashRecord, max |-> maxLen]
    ELSE IF pHashRecord \in seen THEN [st |-> "hang", prev |-> pPrevHashRecord, max |-> maxLen]
    ELSE Val({ FindTail(m, next, len, mx, pHashRecord, sn) :
               next \in { m[pHashRecord + NextOff] },
               len \in { LinkedListLength + 1 },
               mx \in { Larger(LinkedListLength + 1, maxLen) },
               sn \in { seen \cup {pHashRecord} } })

\* lines 337-353: unlink p and append it after the tail t found in its new chain
Relink(s, p, slot, t) ==
    IF t.st # "ok" THEN [s EXCEPT !.st = t.st]
    ELSE IF t.prev = nullptr
    THEN [mem |-> [s.mem EXCEPT ![p + NextOff] = nullptr, ![slot] = p],
          used |-> s.used + 1, max |-> t.max, total |-> s.total + 1, st |-> "ok"]
    ELSE [mem |-> [s.mem EXCEPT ![p + NextOff] = nullptr, ![t.prev + NextOff] = p],
          used |-> s.used, max |-> t.max, total |-> s.total + 1, st |-> "ok"]

\* lines 316-335: rehash p->key and walk to the end of its new chain
MigrateNode(s, p, newTable, newSize) ==
    Val({ Val({ Relink(s, p, slot, t) :
                t \in { FindTail(s.mem, s.mem[slot], 0, s.max, nullptr, {}) } }) :
          slot \in { newTable + PtrSize * Bucket(s.mem[p + KeyOff], newSize) } })

\* lines 314-354, the inner loop over one old chain.  seen holds the pairs
\* (memory, p) the loop has been in: when one comes back the loop never ends.
RECURSIVE MigrateChain(_, _, _, _, _)
MigrateChain(s, p, newTable, newSize, seen) ==
    IF s.st # "ok" \/ p = nullptr THEN s
    ELSE IF ~IsNode(p) THEN [s EXCEPT !.st = "wild"]
    ELSE IF << s.mem, p >> \in seen THEN [s EXCEPT !.st = "hang"]
    ELSE Val({ MigrateChain(s2, next, newTable, newSize, sn) :
               s2 \in { MigrateNode(s, p, newTable, newSize) },
               next \in { s.mem[p + NextOff] },
               sn \in { seen \cup { << s.mem, p >> } } })

\* lines 311-355, the outer loop over the old buckets lo .. hi-1
RECURSIVE MigrateBuckets(_, _, _, _, _, _)
MigrateBuckets(s, lo, hi, oldTable, newTable, newSize) ==
    IF s.st # "ok" \/ lo >= hi THEN s
    ELSE IF hi = lo + 1
    THEN MigrateChain(s, s.mem[oldTable + PtrSize * lo], newTable, newSize, {})
    ELSE Val({ MigrateBuckets(s2, (lo + hi) \div 2, hi, oldTable, newTable, newSize) :
               s2 \in { MigrateBuckets(s, lo, (lo + hi) \div 2, oldTable, newTable,
                                       newSize) } })

\* growth by two buckets
GrownByTwo(size) == size + 2
\* line 304: HashTableSize = HashTableSize * 2
GrownSize(size) == size * 2

\* the whole of IncreaseHashTableSize, from memory m and allocator position next
IncreaseHashTableSize(m, table, size, next) ==
    Val({ [mem |-> s.mem, used |-> s.used, max |-> s.max, total |-> s.total, st |-> s.st,
           HashTable |-> AllocateBytes(next, GrownSize(size) * PtrSize, PtrSize).ptr,
           HashTableSize |-> GrownSize(size),
           next |-> AllocateBytes(next, GrownSize(size) * PtrSize, PtrSize).next,
           OldHashTable |-> table, OldHashTableFreeRemaining |-> size * PtrSize] :
          s \in { MigrateBuckets([mem |-> m, used |-> 0, max |-> 0, total |-> 0,
                                  st |-> "ok"],
                                 0, size, table,
                                 AllocateBytes(next, GrownSize(size) * PtrSize, PtrSize).ptr,
                                 GrownSize(size)) } })

(***************************************************************************)
(* LookupPointer, as a function of the current state: the outcome o of the *)
(* call.  o.st is "ok", a fault of a walk, "assert" (the assert(false)     *)
(* after the post-resize search) or "oom" (the modelled memory is too      *)
(* small for the request: the call is outside the bounds of the model).    *)
(* o.ins is the table, allocator and cursor as the resize test of line 268  *)
(* saw them.                                                               *)
(***************************************************************************)
Outcome(st, ret, inserted, resized, node, fromOld, m, next, table, size, cursor, remaining, used, maxLen, total, ins) ==
    [st |-> st, ret |-> ret, inserted |-> inserted, resized |-> resized, node |-> node,
     fromOld |-> fromOld, mem |-> m, next |-> next, HashTable |-> table,
     HashTableSize |-> size, OldHashTable |-> cursor,
     OldHashTableFreeRemaining |-> remaining, used |-> used, max |-> maxLen,
     total |-> total, ins |-> ins]

NoInsert == [mem |-> << >>, used |-> 0, total |-> 0, max |-> 0, next |-> 0,
             cursor |-> nullptr, remaining |-> 0]

Unchanged(st) ==
    Outcome(st, nullptr, FALSE, FALSE, nullptr, FALSE, mem, arenaNext, HashTable,
            HashTableSize, OldHashTable, OldHashTableFreeRemaining, NumUsedSlots,
            MaxListLength, NumTotalRecords, NoInsert)

\* lines 274-292: the search after the resize r
SearchAgain(InPointer, pNewHashRec, fromOld, r, f, ins) ==
    IF r.st # "ok" THEN Unchanged(r.st)
    ELSE IF f.st \in {"wild", "hang"} THEN Unchanged(f.st)
    ELSE Outcome(IF f.st = "found" THEN "ok" ELSE "assert",
                 IF f.st = "found" THEN f.node + ValueOff ELSE pNewHashRec + ValueOff,
                 TRUE, TRUE, pNewHashRec, fromOld, r.mem, r.next, r.HashTable,
                 r.HashTableSize, r.OldHashTable, r.OldHashTableFreeRemaining,
                 r.used, r.max, r.total, ins)

Resized(InPointer, pNewHashRec, fromOld, r, ins) ==
    Val({ SearchAgain(InPointer, pNewHashRec, fromOld, r, f, ins) :
          f \in { IF r.st # "ok" THEN [st |-> "end", node |-> nullptr]
                  ELSE FindAgain(r.mem,
                                 r.mem[r.HashTable +
                                       PtrSize * Bucket(InPointer, r.HashTableSize)],
                                 InPointer, {}) } })

\* lines 263-295: the counters after the insert, the resize test, the resize
\* and the second search
AfterInsert(InPointer, pNewHashRec, fromOld, m, next, cursor, remaining, used, maxLen) ==
    IF ~NeedResize(used, NumTotalRecords + 1, maxLen, HashTableSize)
    THEN Outcome("ok", pNewHashRec + ValueOff, TRUE, FALSE, pNewHashRec, fromOld, m,
                 next, HashTable, HashTableSize, cursor, remaining, used, maxLen,
                 NumTotalRecords + 1,
                 [mem |-> m, used |-> used, total |-> NumTotalRecords + 1, max |-> maxLen,
                  next |-> next, cursor |-> cursor, remaining |-> remaining])
    ELSE IF ~CanAllocate(next, GrownSize(HashTableSize) * PtrSize) THEN Unchanged("oom")
    ELSE Val({ Resized(InPointer, pNewHashRec, fromOld, r,
                       [mem |-> m, used |-> used, total |-> NumTotalRecords + 1,
                        max |-> maxLen, next |-> next, cursor |-> cursor,
                        remaining |-> remaining]) :
               r \in { IncreaseHashTableSize(m, HashTable, HashTableSize, next) } })

\* lines 243-261: fill the node and link it
LinkNew(InPointer, slot, pPrevHashRecord, maxLen, pNewHashRec, fromOld, next, cursor, remaining) ==
    IF ~IsNode(pNewHashRec) THEN Unchanged("wild")
    ELSE Val({ AfterInsert(InPointer, pNewHashRec, fromOld, m2, next, cursor, remaining,
                           used, maxLen) :
               m2 \in { IF pPrevHashRecord = nullptr
                        THEN [mem EXCEPT ![pNewHashRec + KeyOff] = InPointer,
                                         ![pNewHashRec + ValueOff] = nullptr,
                                         ![pNewHashRec + NextOff] = nullptr,
                                         ![slot] = pNewHashRec]
                        ELSE [mem EXCEPT ![pNewHashRec + KeyOff] = InPointer,
                                         ![pNewHashRec + ValueOff] = nullptr,
                                         ![pNewHashRec + NextOff] = nullptr,
                                         ![pPrevHashRecord + NextOff] = pNewHashRec] },
               used \in { IF pPrevHashRecord = nullptr THEN NumUsedSlots + 1
                                                       ELSE NumUsedSlots } })

\* lines 232-241: take the node from the old bucket array if there is one,
\* from the allocator otherwise
InsertNew(InPointer, slot, pPrevHashRecord, maxLen) ==
    IF OldHashTable # nullptr
    THEN Val({ LinkNew(InPointer, slot, pPrevHashRecord, maxLen, o.ptr, TRUE, arenaNext,
                       o.cursor, o.remaining) :
               o \in { AllocateFromOldHashTable(OldHashTable, OldHashTableFreeRemaining) } })
    ELSE IF ~CanAllocate(arenaNext, SizeofHash_t) THEN Unchanged("oom")
    ELSE Val({ LinkNew(InPointer, slot, pPrevHashRecord, maxLen, a.ptr, FALSE, a.next,
                       OldHashTable, OldHashTableFreeRemaining) :
               a \in { AllocateBytes(arenaNext, SizeofHash_t, PtrSize) } })

\* a walk that counts a record for the node it finds
WalkedCounting(InPointer, slot, w) ==
    IF w.st = "found"
    THEN Outcome("ok", w.node + ValueOff, FALSE, FALSE, nullptr, FALSE, mem, arenaNext,
                 HashTable, HashTableSize, OldHashTable, OldHashTableFreeRemaining,
                 NumUsedSlots, w.max, NumTotalRecords + 1, NoInsert)
    ELSE IF w.st = "end" THEN InsertNew(InPointer, slot, w.prev, w.max)
    ELSE Unchanged(w.st)

\* lines 201-228: hash, walk the chain, return the slot of a node that is found
Walked(InPointer, slot, w) ==
    IF w.st = "found"
    THEN Outcome("ok", w.node + ValueOff, FALSE, FALSE, nullptr, FALSE, mem, arenaNext,
                 HashTable, HashTableSize, OldHashTable, OldHashTableFreeRemaining,
                 NumUsedSlots, w.max, NumTotalRecords, NoInsert)
    ELSE IF w.st = "end" THEN InsertNew(InPointer, slot, w.prev, w.max)
    ELSE Unchanged(w.st)

Lookup(InPointer) ==
    Val({ Val({ Walked(InPointer, slot, w) :
                w \in { WalkChain(mem, mem[slot], InPointer, 0, MaxListLength, nullptr,
                                  {}) } }) :
          slot \in { HashTable + PtrSize * Bucket(InPointer, HashTableSize) } })

(***************************************************************************)
(* What a bucket array holds, read from the memory.                        *)
(***************************************************************************)
\* the nodes of the chain that starts at p, in chain order, up to a null, a
\* wild pointer or a node seen before
RECURSIVE ChainFrom(_, _, _)
ChainFrom(m, p, seen) ==
    IF p = nullptr \/ ~IsNode(p) \/ p \in seen THEN << >>
    ELSE << p >> \o Val({ ChainFrom(m, next, sn) :
                          next \in { m[p + NextOff] }, sn \in { seen \cup {p} } })

\* how that chain ends: "ok" at a null, else "wild" or "hang"
RECURSIVE ChainEnd(_, _, _)
ChainEnd(m, p, seen) ==
    IF p = nullptr THEN "ok"
    ELSE IF ~IsNode(p) THEN "wild"
    ELSE IF p \in seen THEN "hang"
    ELSE Val({ ChainEnd(m, next, sn) :
               next \in { m[p + NextOff] }, sn \in { seen \cup {p} } })

Range(f) == { f[i] : i \in DOMAIN f }
ChainIn(m, table, i) == ChainFrom(m, m[table + PtrSize * i], {})
NodesIn(m, table, size) == UNION { Range(ChainIn(m, table, i)) : i \in 0..(size - 1) }
LongestChainIn(m, table, size) ==
    Val({ CHOOSE n \in lens : \A l \in lens : l <= n :
          lens \in { { Len(ChainIn(m, table, i)) : i \in 0..(size - 1) } } })

\* the nodes a table reaches, each with its key and its value
KeptNodes(m, table, size) ==
    { << n, m[n + KeyOff], m[n + ValueOff] >> : n \in NodesIn(m, table, size) }

ChainOf(i) == ChainIn(mem, HashTable, i)
ReachableNodes == NodesIn(mem, HashTable, HashTableSize)
NodesWithKey(k) == { n \in ReachableNodes : mem[n + KeyOff] = k }
LongestChain == LongestChainIn(mem, HashTable, HashTableSize)

(***************************************************************************)
(* CopyHashToArray.  count[v] is what GetNumRecordsToCopy() of the value v *)
(* returns during the call.  The array is the sequence of the entries the  *)
(* fill loop writes, from index 0; the cells after them stay as allocated. *)
(***************************************************************************)
\* the nodes the loops of lines 85-94 and 102-125 visit, in their order
RECURSIVE TableNodes(_, _, _, _)
TableNodes(m, table, lo, hi) ==
    IF lo >= hi THEN << >>
    ELSE IF hi = lo + 1 THEN ChainIn(m, table, lo)
    ELSE TableNodes(m, table, lo, (lo + hi) \div 2) \o
         TableNodes(m, table, (lo + hi) \div 2, hi)

\* how these loops end: "ok", or the fault of the first chain that has one
TableEnd(m, table, size) ==
    Val({ IF bad = {} THEN "ok"
          ELSE ChainEnd(m, m[table + PtrSize * (CHOOSE i \in bad : \A j \in bad : i <= j)],
                        {}) :
          bad \in { { i \in 0..(size - 1) :
                      ChainEnd(m, m[table + PtrSize * i], {}) # "ok" } } })

RECURSIVE SumOf(_, _)
SumOf(count, values) ==
    IF values = << >> THEN 0 ELSE count[Head(values)] + SumOf(count, Tail(values))

\* T::GetArrayCopy: a pointer to a copy of the record, made in the copy
\* allocator, never the record itself
CopyBase == 16384
GetArrayCopy(v) == CopyBase + v

\* lines 102-125
RECURSIVE FillArray(_, _, _)
FillArray(count, values, bCopyMemberHashTables) ==
    IF values = << >> THEN << >>
    ELSE (IF count[Head(values)] # 0
          THEN << IF bCopyMemberHashTables THEN GetArrayCopy(Head(values))
                                           ELSE Head(values) >>
          ELSE << >>) \o FillArray(count, Tail(values), bCopyMemberHashTables)

NothingCopied(st) ==
    [st |-> st, size |-> 0, ret |-> nullptr, array |-> << >>, requests |-> 0]

\* lines 96-129, for the values of the nodes in visiting order; requests
\* counts the AllocateBytes calls made on the copy allocator
CopyValues(values, count, bCopyMemberHashTables) ==
    IF SumOf(count, values) = 0 THEN NothingCopied("ok")
    ELSE [st |-> "ok", size |-> SumOf(count, values), ret |-> CopyBase,
          array |-> FillArray(count, values, bCopyMemberHashTables), requests |-> 1]

\* lines 75-134; a value that is null or no record makes the call through it
\* a wild one
CopyHashToArray(InCopyAllocator, count, bCopyMemberHashTables, values, end) ==
    IF ~(InCopyAllocator /\ HashTable # nullptr /\ NumTotalRecords # 0)
    THEN NothingCopied("ok")
    ELSE IF \E i \in 1..Len(values) : values[i] \notin RecordPool THEN NothingCopied("wild")
    ELSE IF end # "ok" THEN NothingCopied(end)
    ELSE CopyValues(values, count, bCopyMemberHashTables)

\* byte ranges [a, a + alen) and [b, b + blen) share a byte
Overlaps(a, alen, b, blen) == a < b + blen /\ b < a + alen

(***************************************************************************)
(* The caller.  work = [size, free, script, uninit]: the initial table     *)
(* size, the keys it may look up at any time, the keys it inserts in a     *)
(* fixed order, and what the uninitialised members held at construction.   *)
(* A slot that comes back empty must be filled by the caller with a record *)
(* of its own before it uses the table again.                              *)
(***************************************************************************)
Called == {k \in KeyPool : firstSlot[k] # nullptr}

ScriptDone == \A i \in 1..Len(work.script) : work.script[i] \in Called

\* a free key at any time; the next key of the script; any key looked up
\* before once the script is done
Allowed(k) ==
    \/ k \in work.free
    \/ k \in Called /\ ScriptDone
    \/ \E i \in 1..Len(work.script) :
          /\ work.script[i] = k
          /\ k \notin Called
          /\ \A j \in 1..(i - 1) : work.script[j] \in Called

CallerMustStore == last.op = "lookup" /\ mem[last.ret] = nullptr

\* the window of the bucket array superseded by the latest resize
NoWindow == [base |-> nullptr, bytes |-> 0]

NoTest == [used |-> 0, total |-> 0, size |-> 0, max |-> 0, longest |-> 0]

\* last: the latest LookupPointer call.  first: it was the first call for
\* its key; win: the window when it was made; clash: the node it took from
\* the old bucket array shares bytes with a node of the table or with the
\* bucket array; test: what the resize test of line 268 saw; grew: the
\* latest call that inserted a node also resized; size: HashTableSize when
\* it was made; room: OldHashTableFreeRemaining when it was made; kept: the
\* nodes the table reached when the call began its resize, each with its key
\* and value; asked: the bytes the allocator handed out during that resize.
NoCall == [op |-> "none", key |-> nullptr, ret |-> nullptr, inserted |-> FALSE,
           resized |-> FALSE, node |-> nullptr, fromOld |-> FALSE, first |-> FALSE,
           win |-> NoWindow, clash |-> FALSE, test |-> NoTest, grew |-> FALSE,
           size |-> 0, room |-> 0, kept |-> {}, asked |-> 0]

(***************************************************************************)
(* The table that never recycles: LookupPointer with the branch of lines   *)
(* 234-236 never taken.  Every node is then a fresh allocation, no two     *)
(* nodes share storage, and a chain is the sequence of the << key, value >>*)
(* pairs of its nodes.                                                     *)
(***************************************************************************)
\* lines 30-42: size empty buckets, counters zero
TwinConstruct(size) ==
    [size |-> size, chains |-> [i \in 0..(size - 1) |-> << >>], used |-> 0, max |-> 0,
     total |-> 0]

\* lines 213-228: the place of the key in the chain, 0 when it is not there
PlaceIn(chain, InPointer) ==
    IF \E j \in 1..Len(chain) : chain[j][1] = InPointer
    THEN CHOOSE j \in 1..Len(chain) :
            /\ chain[j][1] = InPointer
            /\ \A h \in 1..(j - 1) : chain[h][1] # InPointer
    ELSE 0

\* lines 311-314: the nodes of the old buckets lo .. size-1 in the order the
\* loops visit them
RECURSIVE TwinNodes(_, _)
TwinNodes(t, lo) ==
    IF lo >= t.size THEN << >> ELSE t.chains[lo] \o TwinNodes(t, lo + 1)

\* lines 316-353: node nodes[i] and those after it are appended to their new chains
RECURSIVE TwinMove(_, _, _)
TwinMove(t, nodes, i) ==
    IF i > Len(nodes) THEN t
    ELSE Val({ TwinMove([t EXCEPT !.chains[b] = Append(@, nodes[i]),
                                  !.used = IF t.chains[b] = << >> THEN @ + 1 ELSE @,
                                  !.max = Larger(Len(t.chains[b]), @),
                                  !.total = @ + 1],
                        nodes, i + 1) :
               b \in { Bucket(nodes[i][1], t.size) } })

\* lines 298-356
TwinIncrease(t) ==
    Val({ TwinMove(TwinConstruct(GrownSize(t.size)), nodes, 1) :
          nodes \in { TwinNodes(t, 0) } })

\* lines 238-295: a node from the allocator, linked at the end of the chain
TwinInsert(t, InPointer, b) ==
    Val({ IF NeedResize(t2.used, t2.total, t2.max, t2.size) THEN TwinIncrease(t2) ELSE t2 :
          t2 \in { [t EXCEPT !.chains[b] = Append(@, << InPointer, nullptr >>),
                             !.used = IF t.chains[b] = << >> THEN @ + 1 ELSE @,
                             !.max = Larger(Len(t.chains[b]), @),
                             !.total = @ + 1] } })

\* lines 201-296
TwinLookup(t, InPointer) ==
    Val({ IF PlaceIn(t.chains[b], InPointer) > 0
          THEN [t EXCEPT !.max = Larger(PlaceIn(t.chains[b], InPointer), @)]
          ELSE TwinInsert(t, InPointer, b) :
          b \in { Bucket(InPointer, t.size) } })

\* the caller fills the slot of its key
TwinStore(t, InPointer, value) ==
    Val({ [t EXCEPT !.chains[b][PlaceIn(t.chains[b], InPointer)][2] = value] :
          b \in { Bucket(InPointer, t.size) } })

\* what a caller can observe of the table in memory: the length, the chains
\* as << key, value >> pairs in order, and the three counters
Observed ==
    [size |-> HashTableSize,
     chains |-> [i \in 0..(HashTableSize - 1) |->
                   Val({ [j \in 1..Len(c) |-> << mem[c[j] + KeyOff], mem[c[j] + ValueOff] >>] :
                         c \in { ChainOf(i) } })],
     used |-> NumUsedSlots, max |-> MaxListLength, total |-> NumTotalRecords]

\* race: no thread is inside a call.  w is the thread whose LookupPointer
\* call inserts w.key and resizes, with the locals of IncreaseHashTableSize;
\* r is the thread that looks up r.key, with the locals of LookupPointer.
\* w.present: the keys the table held when the resize began; r.overlapped:
\* a step of w was taken while r was inside its call; r.missing: r.key could
\* not be found when r began, after w had returned.
NoRace == [w |-> [pc |-> "idle", key |-> nullptr, node |-> nullptr,
                  OldHashTableSize |-> 0, i |-> 0, p |-> nullptr, present |-> {}],
           r |-> [pc |-> "idle", key |-> nullptr, hash |-> 0, pHashRecord |-> nullptr,
                  pPrevHashRecord |-> nullptr, LinkedListLength |-> 0, ret |-> nullptr,
                  inserted |-> FALSE, overlapped |-> FALSE, missing |-> FALSE]]

\* copy: no CopyHashToArray call has just returned
NoCopy == [called |-> FALSE, deep |-> FALSE, count |-> << >>, values |-> << >>,
           size |-> 0, ret |-> nullptr, array |-> << >>, allocator |-> FALSE,
           requests |-> 0]

(***************************************************************************)
(* The constructor.  It allocates the bucket array and zeroes the three    *)
(* counters; it does not initialise OldHashTable and                       *)
(* OldHashTableFreeRemaining, which start with whatever the storage of the *)
(* object held: null, or a stale pointer and size.                         *)
(***************************************************************************)
StalePointers == {ArenaBase, ArenaBase + 16 * PtrSize, ArenaBase + 99 * PtrSize}
StaleSizes == {0, SizeofHash_t}
Uninitialized == {<< nullptr, 0 >>} \cup (StalePointers \X StaleSizes)

\* a workload together with what the two uninitialised members start as
Work(size, free, script) ==
    { [size |-> size, free |-> free, script |-> script, uninit |-> u] :
      u \in Uninitialized }
GeneralWork == UNION { Work(size, GeneralKeys, << >>) : size \in {1, 2, 3, 4} }
DistinctWork == Work(8, {}, DistinctKeys)
CollidingWork == Work(8, FillerKeys, CollidingKeys)
SpreadingWork == Work(4, {}, SpreadingKeys)
Workloads == GeneralWork \cup DistinctWork \cup CollidingWork \cup SpreadingWork

Construct(w) ==
    /\ work = w
    /\ HashTableSize = w.size
    /\ HashTable = AllocateBytes(ArenaBase, w.size * PtrSize, PtrSize).ptr
    /\ arenaNext = AllocateBytes(ArenaBase, w.size * PtrSize, PtrSize).next
    /\ OldHashTable = w.uninit[1]
    /\ OldHashTableFreeRemaining = w.uninit[2]
    /\ NumUsedSlots = 0
    /\ MaxListLength = 0
    /\ NumTotalRecords = 0
    /\ mem = [a \in Addrs |-> nullptr]
    /\ pc = "ok"
    /\ last = NoCall
    /\ resizes = 0
    /\ window = NoWindow
    /\ firstSlot = [k \in KeyPool |-> nullptr]
    /\ stored = [k \in KeyPool |-> nullptr]
    /\ copy = NoCopy
    /\ race = NoRace
    /\ twin = TwinConstruct(w.size)

Init == \E w \in Workloads : Construct(w)

(***************************************************************************)
(* Actions                                                                 *)
(***************************************************************************)
LookupPointer(InPointer) ==
    /\ pc = "ok"
    /\ ~CallerMustStore
    /\ Allowed(InPointer)
    /\ \E o \in { Lookup(InPointer) } :
           /\ o.st # "oom"
           /\ pc' = o.st
           /\ HashTableSize' = o.HashTableSize
           /\ HashTable' = o.HashTable
           /\ OldHashTable' = o.OldHashTable
           /\ OldHashTableFreeRemaining' = o.OldHashTableFreeRemaining
           /\ NumUsedSlots' = o.used
           /\ MaxListLength' = o.max
           /\ NumTotalRecords' = o.total
           /\ mem' = o.mem
           /\ arenaNext' = o.next
           /\ last' = [op |-> "lookup", key |-> InPointer, ret |-> o.ret,
                       inserted |-> o.inserted, resized |-> o.resized, node |-> o.node,
                       fromOld |-> o.fromOld, first |-> firstSlot[InPointer] = nullptr,
                       win |-> window,
                       clash |-> /\ o.fromOld
                                 /\ \/ \E n \in ReachableNodes :
                                          Overlaps(o.node, SizeofHash_t, n, SizeofHash_t)
                                    \/ Overlaps(o.node, SizeofHash_t, HashTable,
                                                HashTableSize * PtrSize),
                       test |-> IF o.inserted
                                THEN [used |-> o.ins.used, total |-> o.ins.total,
                                      size |-> HashTableSize, max |-> o.ins.max,
                                      longest |-> LongestChainIn(o.ins.mem, HashTable,
                                                                 HashTableSize)]
                                ELSE NoTest,
                       grew |-> IF o.inserted THEN o.resized ELSE last.grew,
                       size |-> HashTableSize,
                       room |-> OldHashTableFreeRemaining,
                       kept |-> IF o.resized
                                THEN KeptNodes(o.ins.mem, HashTable, HashTableSize)
                                ELSE {},
                       asked |-> IF o.resized THEN o.next - o.ins.next ELSE 0]
           /\ resizes' = IF o.resized THEN resizes + 1 ELSE resizes
           /\ window' = IF o.resized
                        THEN [base |-> HashTable, bytes |-> HashTableSize * PtrSize]
                        ELSE window
           /\ firstSlot' = IF o.st = "ok" /\ firstSlot[InPointer] = nullptr
                           THEN [firstSlot EXCEPT ![InPointer] = o.ret]
                           ELSE firstSlot
           /\ copy' = NoCopy
           /\ twin' = TwinLookup(twin, InPointer)
           /\ UNCHANGED << work, stored, race >>

\* the caller fills the empty slot it was handed: *slot = new T
Store ==
    /\ pc = "ok"
    /\ CallerMustStore
    /\ mem' = [mem EXCEPT ![last.ret] = NewRecord(last.key)]
    /\ stored' = [stored EXCEPT ![last.key] = NewRecord(last.key)]
    /\ last' = [last EXCEPT !.op = "store"]
    /\ copy' = NoCopy
    /\ twin' = TwinStore(twin, last.key, NewRecord(last.key))
    /\ UNCHANGED << members, arenaNext, pc, work, resizes, window, firstSlot, race >>

\* the values of the nodes the loops of CopyHashToArray visit
TableValues ==
    Val({ [i \in 1..Len(nodes) |-> mem[nodes[i] + ValueOff]] :
          nodes \in { TableNodes(mem, HashTable, 0, HashTableSize) } })

\* a call of CopyHashToArray, with or without a copy allocator, shallow or
\* deep, on a table of at most MaxCopied nodes whose values report up to
\* MaxRecords records each
Copy ==
    /\ pc = "ok"
    /\ ~CallerMustStore
    /\ \E values \in { TableValues } :
          /\ Len(values) <= MaxCopied
          /\ \E InCopyAllocator, bCopyMemberHashTables \in BOOLEAN :
             \E count \in [Range(values) \cap RecordPool -> 0..MaxRecords] :
             \E o \in { CopyHashToArray(InCopyAllocator, count, bCopyMemberHashTables,
                                        values,
                                        TableEnd(mem, HashTable, HashTableSize)) } :
                /\ pc' = o.st
                /\ copy' = [called |-> TRUE, deep |-> bCopyMemberHashTables,
                            count |-> count, values |-> values, size |-> o.size,
                            ret |-> o.ret, array |-> o.array,
                            allocator |-> InCopyAllocator, requests |-> o.requests]
    /\ UNCHANGED << members, mem, arenaNext, history, race >>

Next ==
    \/ \E k \in KeyPool : LookupPointer(k)
    \/ Store

Spec == Init /\ [][Next]_vars

\* the general workloads, with the table exported at any time
InitCopy == \E w \in GeneralWork : Construct(w)

NextCopy ==
    \/ \E k \in KeyPool : LookupPointer(k)
    \/ Store
    \/ Copy

SpecCopy == InitCopy /\ [][NextCopy]_vars

\* the uninitialised members happened to start as null and 0
StartsNull == work.uninit = << nullptr, 0 >>

\* LookupPointer(k) would find a node of k that holds what the caller stored
Retrievable(k) ==
    \E n \in Range(ChainOf(Bucket(k, HashTableSize))) :
       /\ mem[n + KeyOff] = k
       /\ mem[n + ValueOff] = stored[k]

\* the three scripted workloads
Distinct == work.script = DistinctKeys
Spreading == work.script = SpreadingKeys
\* the twelve colliding keys, inserted into a table that holds nothing else
CollidingAlone == work.script = CollidingKeys /\ Called \cap FillerKeys = {}

(***************************************************************************)
(* C1 (uniqueness): after every call the table holds at most one node per  *)
(* key, a call returns the slot that the first call for its key returned,  *)
(* and only the first call for a key creates a node.                       *)
(***************************************************************************)
C1_Uniqueness ==
    pc = "ok" =>
        /\ \A k \in KeyPool : Cardinality(NodesWithKey(k)) <= 1
        /\ last.op # "none" =>
              /\ last.ret = firstSlot[last.key]
              /\ last.inserted => last.first

(***************************************************************************)
(* C2 (resizes preserve the mapping): after every call, resizing or not,   *)
(* every key that was looked up is retrievable from the bucket array with  *)
(* the value the caller stored for it, and a call returns a slot that      *)
(* holds what the caller last stored for its key.                          *)
(***************************************************************************)
C2_MappingPreserved ==
    pc = "ok" =>
        /\ \A k \in Called : Retrievable(k)
        /\ last.op = "lookup" => mem[last.ret] = stored[last.key]

(***************************************************************************)
(* C3: the assert(false) after the post-resize search is never reached,    *)
(* and every call returns the value slot of a node that holds its key.     *)
(***************************************************************************)
C3_ReturnsSlotOfKey ==
    /\ pc # "assert"
    /\ (pc = "ok" /\ last.op = "lookup") => mem[last.ret - ValueOff + KeyOff] = last.key

(***************************************************************************)
(* C4 (recycling safety): a node handed out by AllocateFromOldHashTable    *)
(* lies wholly inside the byte window of the superseded bucket array and   *)
(* shares no byte with a node of the table or with the live bucket array.  *)
(***************************************************************************)
C4_RecyclingSafety ==
    (pc = "ok" /\ last.fromOld) =>
        /\ last.win.base <= last.node
        /\ last.node + SizeofHash_t <= last.win.base + last.win.bytes
        /\ ~last.clash

(***************************************************************************)
(* C5 as stated (load factor): after every call that returned, the used    *)
(* slots are at most 0.8 of the bucket-array length.                       *)
(***************************************************************************)
C5_LoadFactor == pc = "ok" => 5 * NumUsedSlots <= 4 * HashTableSize

(***************************************************************************)
(* C5 amended: the used slots exceed 0.8 of the bucket-array length only   *)
(* when the latest call that inserted a key resized the table.             *)
(***************************************************************************)
C5_LoadFactorUnlessGrew == 5 * NumUsedSlots > 4 * HashTableSize => last.grew

C5_Witness ==
    /\ Spreading
    /\ pc = "ok"
    /\ last.op = "store"
    /\ last.grew
    /\ 5 * NumUsedSlots > 4 * HashTableSize

(***************************************************************************)
(* C6 (resize trigger): a call resizes if and only if it inserted a key    *)
(* and, after the insertion, the used slots exceed 80% of the bucket-array *)
(* length, or total records / used slots exceeds 5, or the longest chain   *)
(* of the table has more than 10 nodes.                                    *)
(***************************************************************************)
C6_ResizeIff ==
    (pc = "ok" /\ last.op # "none") =>
        (last.resized <=>
            /\ last.inserted
            /\ \/ 5 * last.test.used > 4 * last.test.size
               \/ last.test.total > 5 * last.test.used
               \/ last.test.longest > MaxListLimit)

C8_OneResize ==
    (CollidingAlone /\ pc = "ok") =>
        /\ resizes <= 1
        /\ last.resized => last.test.longest > MaxListLimit
        /\ ScriptDone =>
              /\ resizes = 1
              /\ \A k \in Called : Retrievable(k)

(***************************************************************************)
(* C8 amended: no resize is made before the 6th insert; an insert that     *)
(* leaves 6 records in 1 used slot resizes; every resize of the sequence   *)
(* is made through the probe average, with no chain of more than 10 nodes; *)
(* the 12 inserts resize twice and all 12 keys are retrievable afterwards. *)
(***************************************************************************)
C8_ProbeAverageResizes ==
    (CollidingAlone /\ pc = "ok") =>
        /\ Cardinality(Called) < 6 => resizes = 0
        /\ (last.inserted /\ last.test.total = 6 /\ last.test.used = 1) => last.resized
        /\ last.resized =>
              /\ last.test.total > 5 * last.test.used
              /\ last.test.longest <= MaxListLimit
        /\ ScriptDone =>
              /\ resizes = 2
              /\ \A k \in Called : Retrievable(k)

C8_Witness ==
    /\ CollidingAlone
    /\ ScriptDone
    /\ pc = "ok"
    /\ last.op = "store"
    /\ resizes = 2
    /\ \A i \in 1..Len(CollidingKeys) : stored[CollidingKeys[i]] # nullptr

(***************************************************************************)
(* C9 (doubling): the bucket-array length is the initial length times 2 to *)
(* the number of resizes, and a call leaves it as it was or, resizing      *)
(* once, doubles it.                                                       *)
(***************************************************************************)
C9_OnlyDoubles ==
    /\ HashTableSize = work.size * (2 ^ resizes)
    /\ last.op # "none" =>
          /\ HashTableSize = IF last.resized THEN 2 * last.size ELSE last.size
          /\ HashTableSize >= last.size

C9_Witness ==
    /\ pc = "ok"
    /\ work.size = 8
    /\ resizes = 2
    /\ HashTableSize = 32

(***************************************************************************)
(* C10 (export length): OutArraySize is the number of entries written to   *)
(* the returned array, one for each value of the table that reports a      *)
(* nonzero record count, in visiting order: the value itself in shallow    *)
(* mode, its copy in deep mode.                                            *)
(***************************************************************************)
C10_SizeIsEntriesWritten ==
    (copy.called /\ pc = "ok") =>
        /\ copy.size = Len(copy.array)
        /\ copy.ret # nullptr =>
              \E picked \in { SelectSeq(copy.values, LAMBDA v : copy.count[v] # 0) } :
                 copy.array = [i \in 1..Len(picked) |->
                                  IF copy.deep THEN GetArrayCopy(picked[i]) ELSE picked[i]]

(***************************************************************************)
(* C11 (empty export): a CopyHashToArray call made without a copy          *)
(* allocator, on a table with no records, or on a table whose values all   *)
(* report 0 records returns a null array and OutArraySize 0 without a      *)
(* request to the copy allocator, in shallow and in deep mode; and no      *)
(* CopyHashToArray call changes the table.                                 *)
(***************************************************************************)
NothingToCopy ==
    \/ ~copy.allocator
    \/ NumTotalRecords = 0
    \/ copy.values = << >>
    \/ \A i \in 1..Len(copy.values) :
          copy.values[i] \in RecordPool /\ copy.count[copy.values[i]] = 0

C11_EmptyExport ==
    /\ [](copy.called /\ NothingToCopy =>
             /\ pc = "ok"
             /\ copy.ret = nullptr
             /\ copy.size = 0
             /\ copy.requests = 0)
    /\ [][copy'.called => UNCHANGED << members, mem, arenaNext >>]_vars


(***************************************************************************)
(* Two threads on one table with no lock.  The class holds no mutex and    *)
(* no atomic member: each read and each write of a member or of a node is  *)
(* a step of its own, and the steps of two calls interleave.  Thread w is  *)
(* inside LookupPointer(w.key), which has inserted its node and found the  *)
(* resize test true; thread r calls LookupPointer(r.key) for a key the     *)
(* table held when the resize began.                                       *)
(***************************************************************************)
\* lines 204-224 on memory m: the search of the walk finds InPointer
PresentIn(m, InPointer) ==
    FindAgain(m, m[HashTable + PtrSize * Bucket(InPointer, HashTableSize)], InPointer,
              {}).st = "found"

\* a step of w is taken: r, when inside its call, has been overlapped (as it
\* is when it begins before w has returned)
Disturbed(r) == IF r.pc \in {"idle", "done"} THEN r ELSE [r EXCEPT !.overlapped = TRUE]

\* lines 204-270 of w's call: the new node is linked and the test is true
BeginResize(InPointer) ==
    /\ pc = "ok"
    /\ ~CallerMustStore
    /\ race = NoRace
    /\ InPointer \notin Called
    /\ \E o \in { Lookup(InPointer) } :
          /\ o.st = "ok"
          /\ o.resized
          /\ mem' = o.ins.mem
          /\ NumUsedSlots' = o.ins.used
          /\ NumTotalRecords' = o.ins.total
          /\ MaxListLength' = o.ins.max
          /\ arenaNext' = o.ins.next
          /\ OldHashTable' = o.ins.cursor
          /\ OldHashTableFreeRemaining' = o.ins.remaining
          /\ race' = [race EXCEPT !.w = [@ EXCEPT !.pc = "sizes", !.key = InPointer,
                                                  !.node = o.node,
                                                  !.present = {k \in Called :
                                                                 PresentIn(o.ins.mem, k)}]]
    /\ UNCHANGED << HashTable, HashTableSize, pc, history, copy >>

\* lines 300-302
SetWindow ==
    /\ pc = "ok"
    /\ race.w.pc = "sizes"
    /\ OldHashTableFreeRemaining' = HashTableSize * PtrSize
    /\ OldHashTable' = HashTable
    /\ race' = [w |-> [race.w EXCEPT !.pc = "double", !.OldHashTableSize = HashTableSize],
                r |-> Disturbed(race.r)]
    /\ UNCHANGED << HashTable, HashTableSize, NumUsedSlots, MaxListLength, NumTotalRecords,
                    mem, arenaNext, pc, history, copy >>

\* line 304
DoubleSize ==
    /\ pc = "ok"
    /\ race.w.pc = "double"
    /\ HashTableSize' = GrownSize(HashTableSize)
    /\ race' = [w |-> [race.w EXCEPT !.pc = "alloc"], r |-> Disturbed(race.r)]
    /\ UNCHANGED << HashTable, OldHashTable, OldHashTableFreeRemaining, NumUsedSlots,
                    MaxListLength, NumTotalRecords, mem, arenaNext, pc, history, copy >>

\* line 305
ReplaceTable ==
    /\ pc = "ok"
    /\ race.w.pc = "alloc"
    /\ CanAllocate(arenaNext, HashTableSize * PtrSize)
    /\ \E a \in { AllocateBytes(arenaNext, HashTableSize * PtrSize, PtrSize) } :
          /\ HashTable' = a.ptr
          /\ arenaNext' = a.next
    /\ race' = [w |-> [race.w EXCEPT !.pc = "reset"], r |-> Disturbed(race.r)]
    /\ UNCHANGED << HashTableSize, OldHashTable, OldHashTableFreeRemaining, NumUsedSlots,
                    MaxListLength, NumTotalRecords, mem, pc, history, copy >>

\* lines 307-309
ResetCounts ==
    /\ pc = "ok"
    /\ race.w.pc = "reset"
    /\ NumUsedSlots' = 0
    /\ MaxListLength' = 0
    /\ NumTotalRecords' = 0
    /\ race' = [w |-> [race.w EXCEPT !.pc = "bucket", !.i = 0], r |-> Disturbed(race.r)]
    /\ UNCHANGED << HashTableSize, HashTable, OldHashTable, OldHashTableFreeRemaining,
                    mem, arenaNext, pc, history, copy >>

\* lines 311-314: the loop test and the read of OldHashTable[i]
NextBucket ==
    /\ pc = "ok"
    /\ race.w.pc = "bucket"
    /\ IF race.w.i >= race.w.OldHashTableSize
       THEN /\ race' = [w |-> [race.w EXCEPT !.pc = "search"], r |-> Disturbed(race.r)]
            /\ pc' = pc
       ELSE IF OldHashTable + PtrSize * race.w.i \notin Addrs
       THEN /\ pc' = "wild"
            /\ race' = [race EXCEPT !.r = Disturbed(race.r)]
       ELSE /\ race' = [w |-> [race.w EXCEPT !.pc = "node",
                                             !.p = mem[OldHashTable + PtrSize * race.w.i]],
                        r |-> Disturbed(race.r)]
            /\ pc' = pc
    /\ UNCHANGED << members, mem, arenaNext, history, copy >>

\* the most nodes w is followed in moving
MaxMoved == 6

\* lines 314-354: one turn of the inner loop, or its end and i++
MoveNode ==
    /\ pc = "ok"
    /\ race.w.pc = "node"
    /\ NumTotalRecords < MaxMoved
    /\ IF race.w.p = nullptr
       THEN /\ race' = [w |-> [race.w EXCEPT !.pc = "bucket", !.i = @ + 1],
                        r |-> Disturbed(race.r)]
            /\ UNCHANGED << NumUsedSlots, MaxListLength, NumTotalRecords, mem, pc >>
       ELSE IF ~IsNode(race.w.p)
       THEN /\ pc' = "wild"
            /\ race' = [race EXCEPT !.r = Disturbed(race.r)]
            /\ UNCHANGED << NumUsedSlots, MaxListLength, NumTotalRecords, mem >>
       ELSE \E s \in { MigrateNode([mem |-> mem, used |-> NumUsedSlots,
                                    max |-> MaxListLength, total |-> NumTotalRecords,
                                    st |-> "ok"],
                                   race.w.p, HashTable, HashTableSize) } :
               /\ pc' = s.st
               /\ mem' = s.mem
               /\ NumUsedSlots' = s.used
               /\ MaxListLength' = s.max
               /\ NumTotalRecords' = s.total
               /\ race' = [w |-> [race.w EXCEPT !.p = mem[race.w.p + NextOff]],
                           r |-> Disturbed(race.r)]
    /\ UNCHANGED << HashTableSize, HashTable, OldHashTable, OldHashTableFreeRemaining,
                    arenaNext, history, copy >>

\* lines 274-292: w searches for its key in the table it now sees
FindNew ==
    /\ pc = "ok"
    /\ race.w.pc = "search"
    /\ \E f \in { FindAgain(mem, mem[HashTable + PtrSize * Bucket(race.w.key,
                                                                  HashTableSize)],
                            race.w.key, {}) } :
          /\ pc' = IF f.st = "found" THEN "ok" ELSE IF f.st = "end" THEN "assert" ELSE f.st
          /\ race' = [w |-> [race.w EXCEPT !.pc = "done"], r |-> Disturbed(race.r)]
    /\ UNCHANGED << members, mem, arenaNext, history, copy >>

\* lines 204-206: r hashes its key with the length it reads
Hashed(InPointer) ==
    /\ pc = "ok"
    /\ race.w.pc # "idle"
    /\ race.r.pc = "idle"
    /\ InPointer \in race.w.present
    /\ race' = [race EXCEPT !.r = [@ EXCEPT !.pc = "head", !.key = InPointer,
                                            !.hash = Bucket(InPointer, HashTableSize),
                                            !.overlapped = race.w.pc # "done",
                                            !.missing = /\ race.w.pc = "done"
                                                        /\ ~PresentIn(mem, InPointer)]]
    /\ UNCHANGED << members, mem, arenaNext, pc, history, copy >>

\* lines 208-211: r reads the head of the chain from the array it sees
ReadHead ==
    /\ pc = "ok"
    /\ race.r.pc = "head"
    /\ race' = [race EXCEPT !.r = [@ EXCEPT !.pc = "walk",
                                            !.pHashRecord =
                                                mem[HashTable + PtrSize * race.r.hash],
                                            !.pPrevHashRecord = nullptr,
                                            !.LinkedListLength = 0]]
    /\ UNCHANGED << members, mem, arenaNext, pc, history, copy >>

\* the longest walk of r that is followed
MaxWalk == 6

\* the node holds the key as its value
HoldsValue(p, InPointer) == mem[p + ValueOff] = InPointer

\* line 221: the node holds the key
HoldsKey(p, InPointer) == mem[p + KeyOff] = InPointer

\* lines 213-228: one turn of the walk
WalkOne ==
    /\ pc = "ok"
    /\ race.r.pc = "walk"
    /\ race.r.pHashRecord # nullptr
    /\ race.r.LinkedListLength < MaxWalk
    /\ IF ~IsNode(race.r.pHashRecord)
       THEN /\ pc' = "wild"
            /\ UNCHANGED << MaxListLength, race >>
       ELSE /\ pc' = pc
            /\ MaxListLength' = Larger(race.r.LinkedListLength + 1, MaxListLength)
            /\ race' = [race EXCEPT !.r =
                          IF HoldsKey(race.r.pHashRecord, race.r.key)
                          THEN [@ EXCEPT !.pc = "done",
                                         !.LinkedListLength = @ + 1,
                                         !.ret = race.r.pHashRecord + ValueOff]
                          ELSE [@ EXCEPT !.LinkedListLength = @ + 1,
                                         !.pPrevHashRecord = race.r.pHashRecord,
                                         !.pHashRecord = mem[race.r.pHashRecord + NextOff]]]
    /\ UNCHANGED << HashTableSize, HashTable, OldHashTable, OldHashTableFreeRemaining,
                    NumUsedSlots, NumTotalRecords, mem, arenaNext, history, copy >>

\* lines 230-295: the walk ended without the key, r adds a node of its own
InsertSecond ==
    /\ pc = "ok"
    /\ race.r.pc = "walk"
    /\ race.r.pHashRecord = nullptr
    /\ \E o \in { InsertNew(race.r.key, HashTable + PtrSize * race.r.hash,
                            race.r.pPrevHashRecord, MaxListLength) } :
          /\ o.st # "oom"
          /\ pc' = o.st
          /\ HashTableSize' = o.HashTableSize
          /\ HashTable' = o.HashTable
          /\ OldHashTable' = o.OldHashTable
          /\ OldHashTableFreeRemaining' = o.OldHashTableFreeRemaining
          /\ NumUsedSlots' = o.used
          /\ MaxListLength' = o.max
          /\ NumTotalRecords' = o.total
          /\ mem' = o.mem
          /\ arenaNext' = o.next
          /\ race' = [race EXCEPT !.r = [@ EXCEPT !.pc = "done", !.ret = o.ret,
                                                  !.inserted = TRUE]]
    /\ UNCHANGED << history, copy >>

\* the general workloads on the two shortest tables
InitRace == \E w \in GeneralWork : w.size <= 2 /\ Construct(w)

NextRace ==
    \/ \E k \in KeyPool : race = NoRace /\ LookupPointer(k)
    \/ race = NoRace /\ Store
    \/ \E k \in KeyPool : BeginResize(k)
    \/ SetWindow
    \/ DoubleSize
    \/ ReplaceTable
    \/ ResetCounts
    \/ NextBucket
    \/ MoveNode
    \/ FindNew
    \/ \E k \in KeyPool : Hashed(k)
    \/ ReadHead
    \/ WalkOne
    \/ InsertSecond

SpecRace == InitRace /\ [][NextRace]_vars

\* C12: a lookup of a present key that runs while another thread resizes can
\* miss the key and add a second node for it, or return a slot of a node the
\* final table does not reach; a lookup that no step of the resize overlaps
\* adds a node only when the key could not be found when it began.
C12_InsertsOnlyWhenOverlapped ==
    race.r.pc = "done" /\ race.r.inserted => race.r.overlapped \/ race.r.missing

\* on a table whose cursor began null, the lookup of a present key,
\* overlapped by the resize, has added a second node for its key to the table
\* the resize left
C12_Witness ==
    /\ StartsNull
    /\ pc = "ok"
    /\ race.w.pc = "done"
    /\ race.r.pc = "done"
    /\ race.r.inserted
    /\ race.r.overlapped
    /\ Cardinality(NodesWithKey(race.r.key)) = 2

\* C13: after every sequence of calls that has returned, the table that
\* recycles old bucket arrays and the table that takes every node from the
\* allocator have the same length, the same keys and values in the same
\* buckets in the same order, and the same three counters.
C13_RecyclingUnobservable == pc = "ok" /\ Observed = twin

\* C14: between operations every node reachable from bucket i holds a key
\* whose hash, modulo the current HashTableSize, is i.
C14_NodesInTheirBuckets ==
    \A i \in 0..(HashTableSize - 1) :
       \A n \in Range(ChainOf(i)) : Bucket(mem[n + KeyOff], HashTableSize) = i

\* C15: between operations NumUsedSlots is the number of non-empty buckets
\* and NumTotalRecords the number of reachable nodes, so that NumUsedSlots is
\* at most HashTableSize and NumTotalRecords at least NumUsedSlots.
C15_CountersExact ==
    /\ NumUsedSlots =
          Cardinality({ i \in 0..(HashTableSize - 1) : mem[HashTable + PtrSize * i] # nullptr })
    /\ NumTotalRecords = Cardinality(ReachableNodes)
    /\ NumUsedSlots <= HashTableSize
    /\ NumTotalRecords >= NumUsedSlots

\* C16: between operations MaxListLength is the number of nodes of the
\* longest chain of the table.
C16_MaxListLengthExact == MaxListLength = LongestChain

\* C17: a call of AllocateFromOldHashTable that retires the cursor does not
\* supply the node of its insertion (the allocator does), and no node is
\* taken from a window that has fewer bytes left than one node.
C17_RetiredWindowUnused ==
    last.inserted /\ last.fromOld =>
       /\ last.resized \/ OldHashTable # nullptr
       /\ SizeTGreaterEq(last.room, SizeofHash_t)

\* C18: until the first resize the cursor is null, and no node inserted
\* before the first resize comes from the cursor.
C18_CursorInactiveAtStart ==
    /\ resizes = 0 => OldHashTable = nullptr
    /\ last.inserted /\ last.fromOld => resizes > (IF last.resized THEN 1 ELSE 0)

\* C19: a resize asks the allocator for one array of twice the old length,
\* leaves the new window whole, and keeps every node where it was with its
\* key and its value.
C19_ResizeFrame ==
    last.op = "lookup" /\ last.resized /\ pc = "ok" =>
       /\ last.asked = 2 * last.size * PtrSize
       /\ OldHashTable = window.base
       /\ OldHashTableFreeRemaining = window.bytes
       /\ KeptNodes(mem, HashTable, HashTableSize) = last.kept

\* C20: a LookupPointer call that finds its key allocates nothing and writes
\* no member but MaxListLength: the bucket array, the nodes and their links,
\* HashTableSize, NumUsedSlots, NumTotalRecords and the cursor are as before.
C20_FoundLookupFrame ==
    [][last'.op = "lookup" /\ ~last'.inserted /\ pc' = "ok" =>
          UNCHANGED << HashTable, HashTableSize, NumUsedSlots, NumTotalRecords,
                       OldHashTable, OldHashTableFreeRemaining, mem, arenaNext >>]_vars

\* a call has found its key behind another node of its chain
C20_Witness ==
    /\ pc = "ok"
    /\ last.op = "lookup"
    /\ ~last.inserted
    /\ last.ret - ValueOff \in NodesWithKey(last.key)
    /\ MaxListLength >= 2

====
